---------------------------- MODULE Spec2Model ----------------------------
(***************************************************************************)
(* A model of the ComplexityAnalyzer of the Occam VS Code extension        *)
(* (src/src/complexityAnalyzer.ts) with its ApiClient collaborator         *)
(* (src/src/apiClient.ts): the lexical function locator, the verdict cache *)
(* keyed by getCacheKey, the timers started by text changes, the hover     *)
(* provider, the manual analysis command and the inline-analysis toggle.   *)
(*                                                                         *)
(* Text is a sequence of one-character strings; a document is a sequence   *)
(* of lines.  Lines are numbered from 1 here (vscode numbers them from 0), *)
(* so `i > startLine` and the like read exactly as in the source.          *)
(***************************************************************************)
EXTENDS Integers, Sequences, FiniteSets, Bags, TLC

(***************************************************************************)
(* Characters                                                              *)
(***************************************************************************)
Lower == <<"a","b","c","d","e","f","g","h","i","j","k","l","m",
           "n","o","p","q","r","s","t","u","v","w","x","y","z">>

Upper == <<"A","B","C","D","E","F","G","H","I","J","K","L","M",
           "N","O","P","Q","R","S","T","U","V","W","X","Y","Z">>

Digits == <<"0","1","2","3","4","5","6","7","8","9">>

ValuesOf(f) == { f[i] : i \in DOMAIN f }

\* \w of a JavaScript regular expression: [A-Za-z0-9_]
WordChars == ValuesOf(Lower) \cup ValuesOf(Upper) \cup ValuesOf(Digits) \cup {"_"}

\* \s of a JavaScript regular expression, over the characters of the model
SpaceChars == {" ", "\n", "\t"}

IsWord(c) == c \in WordChars

IsSpace(c) == c \in SpaceChars

IndexIn(f, c) == CHOOSE i \in DOMAIN f : f[i] = c

\* String.prototype.charCodeAt for the characters of the model (ASCII)
charCodeAt(c) ==
    IF c \in ValuesOf(Lower) THEN 96 + IndexIn(Lower, c)
    ELSE IF c \in ValuesOf(Upper) THEN 64 + IndexIn(Upper, c)
    ELSE IF c \in ValuesOf(Digits) THEN 47 + IndexIn(Digits, c)
    ELSE CASE c = "\t" -> 9
           [] c = "\n" -> 10
           [] c = " "  -> 32
           [] c = "("  -> 40
           [] c = ")"  -> 41
           [] c = "+"  -> 43
           [] c = ","  -> 44
           [] c = ";"  -> 59
           [] c = "="  -> 61
           [] c = ">"  -> 62
           [] c = "_"  -> 95
           [] c = "{"  -> 123
           [] c = "}"  -> 125

(***************************************************************************)
(* The regular expressions.  A matcher At(s, i) answers the index just     *)
(* past the match that starts at index i of s, or 0 when there is none.    *)
(* Every quantifier of the two patterns is followed by something that      *)
(* cannot match what the quantifier matches, so the greedy match is the    *)
(* only one and backtracking never finds another.                          *)
(***************************************************************************)
RECURSIVE SkipWhile(_, _, _)
\* the first index >= i of s whose character is not in set (Len(s)+1 if none)
SkipWhile(s, i, set) ==
    IF i <= Len(s) /\ s[i] \in set THEN SkipWhile(s, i + 1, set) ELSE i

\* the first index >= i of s whose character is c (Len(s)+1 if none)
RECURSIVE FindChar(_, _, _)
FindChar(s, i, c) ==
    IF i <= Len(s) /\ s[i] # c THEN FindChar(s, i + 1, c) ELSE i

\* the literal w at index i of s
LitAt(s, i, w) ==
    IF i >= 1 /\ i + Len(w) - 1 <= Len(s) /\ SubSeq(s, i, i + Len(w) - 1) = w
    THEN i + Len(w) ELSE 0

kwFunction == <<"f","u","n","c","t","i","o","n">>

kwConst == <<"c","o","n","s","t">>

kwAsync == <<"a","s","y","n","c">>

\* function\s+\w+
NamedFunctionAt(s, i) ==
    LET a == LitAt(s, i, kwFunction)
        b == SkipWhile(s, a, SpaceChars)
        c == SkipWhile(s, b, WordChars)
    IN  IF a = 0 \/ b = a \/ c = b THEN 0 ELSE c

\* \([^)]*\)\s*=>
ArrowAt(s, i) ==
    LET close == FindChar(s, i + 1, ")")
        d == SkipWhile(s, close + 1, SpaceChars)
    IN  IF i >= 1 /\ i <= Len(s) /\ s[i] = "(" /\ close <= Len(s)
        THEN LitAt(s, d, <<"=", ">">>) ELSE 0

\* const\s+\w+\s*=\s*(?:async\s+)?(?:function|\([^)]*\)\s*=>)
ConstBindingAt(s, i) ==
    LET a == LitAt(s, i, kwConst)
        b == SkipWhile(s, a, SpaceChars)
        c == SkipWhile(s, b, WordChars)
        d == SkipWhile(s, c, SpaceChars)
        e == SkipWhile(s, d + 1, SpaceChars)
        y == LitAt(s, e, kwAsync)
        z == SkipWhile(s, y, SpaceChars)
        g == IF y # 0 /\ z > y THEN z ELSE e
        fn == LitAt(s, g, kwFunction)
    IN  IF a = 0 \/ b = a \/ c = b \/ d > Len(s) THEN 0
        ELSE IF s[d] # "=" THEN 0
        ELSE IF fn # 0 THEN fn ELSE ArrowAt(s, g)

\* \w+\s*\([^)]*\)\s*\{
CallBlockAt(s, i) ==
    LET a == SkipWhile(s, i, WordChars)
        b == SkipWhile(s, a, SpaceChars)
        close == FindChar(s, b + 1, ")")
        d == SkipWhile(s, close + 1, SpaceChars)
    IN  IF i < 1 \/ a = i \/ b > Len(s) THEN 0
        ELSE IF s[b] # "(" \/ close > Len(s) \/ d > Len(s) THEN 0
        ELSE IF s[d] = "{" THEN d + 1 ELSE 0

\* (function\s+\w+|const...|\w+\s*\([^)]*\)\s*\{): the first alternative that matches
StartPatternAt(s, i) ==
    IF NamedFunctionAt(s, i) # 0 THEN NamedFunctionAt(s, i)
    ELSE IF ConstBindingAt(s, i) # 0 THEN ConstBindingAt(s, i)
    ELSE CallBlockAt(s, i)

\* \b at index i of s: exactly one of s[i-1], s[i] is a word character
WordBoundary(s, i) ==
    LET before == i > 1 /\ i - 1 <= Len(s) /\ IsWord(s[i - 1])
        after  == i >= 1 /\ i <= Len(s) /\ IsWord(s[i])
    IN  before # after

\* functionRegex.test(text) of getFunctionAtPosition: /\b(...)/ matches somewhere
functionRegexTest(text) ==
    \E i \in 1..Len(text) : WordBoundary(text, i) /\ StartPatternAt(text, i) # 0

(***************************************************************************)
(* Documents (vscode.TextDocument) and ranges (vscode.Range)               *)
(***************************************************************************)
\* the result `null` of getFunctionAtPosition
null == [startLine |-> 0, endLine |-> 0]

\* lineText.trim() === ''
TrimIsEmpty(lineText) == \A i \in 1..Len(lineText) : IsSpace(lineText[i])

RECURSIVE JoinLines(_, _, _)
\* the lines a..b of a document joined by the end-of-line character
JoinLines(lines, a, b) ==
    IF a > b THEN <<>>
    ELSE IF a = b THEN lines[a]
    ELSE lines[a] \o <<"\n">> \o JoinLines(lines, a + 1, b)

\* document.getText(range) for a range from (startLine, 0) to the end of endLine
getTextRange(lines, range) == JoinLines(lines, range.startLine, range.endLine)

\* document.getText()
getText(lines) == JoinLines(lines, 1, Len(lines))

\* document.positionAt(index).line for the index of a character of getText()
positionAtLine(text, index) ==
    1 + Cardinality({ k \in 1..(index - 1) : text[k] = "\n" })

(***************************************************************************)
(* getFunctionAtPosition                                                   *)
(***************************************************************************)
RECURSIVE FindStart(_, _, _)
\* the loop "Find start of function": the start line, or 0 for !foundStart
FindStart(lines, i, positionLine) ==
    IF i < 1 THEN 0
    ELSE IF functionRegexTest(lines[i]) THEN i
    ELSE IF i < positionLine /\ TrimIsEmpty(lines[i]) THEN 0
    ELSE FindStart(lines, i - 1, positionLine)

\* braceCount after the character char
CountBrace(braceCount, char) ==
    IF char = "{" THEN braceCount + 1
    ELSE IF char = "}" THEN braceCount - 1
    ELSE braceCount

\* the test made after every character of the forward scan
EndFound(braceCount, i, startLine) == braceCount = 0 /\ i > startLine

RECURSIVE FindEnd(_, _, _, _, _)
\* the loop "Find end of function by counting braces", at character j of
\* line i with the count so far: the end line, or 0 when the loop runs out
FindEnd(lines, startLine, i, j, braceCount) ==
    IF i > Len(lines) THEN 0
    ELSE IF j > Len(lines[i]) THEN FindEnd(lines, startLine, i + 1, 1, braceCount)
    ELSE LET count == CountBrace(braceCount, lines[i][j])
         IN  IF EndFound(count, i, startLine) THEN i
             ELSE FindEnd(lines, startLine, i, j + 1, count)

\* the early return of getFunctionAtPosition when the line of the position
\* does not match the function pattern
OnDeclaration(lines, positionLine) == functionRegexTest(lines[positionLine])

\* the range returned for a start line, or null when the forward scan runs
\* out.  (A set binds a name to a value, so the scan is made once.)
RangeFrom(lines, startLine) ==
    CHOOSE range \in
        { IF endLine = 0 THEN null
          ELSE [startLine |-> startLine, endLine |-> endLine] :
            endLine \in {FindEnd(lines, startLine, startLine, 1, 0)} } : TRUE

getFunctionAtPosition(lines, positionLine) ==
    IF ~OnDeclaration(lines, positionLine) THEN null
    ELSE CHOOSE range \in
            { IF startLine = 0 THEN null ELSE RangeFrom(lines, startLine) :
                startLine \in {FindStart(lines, positionLine, positionLine)} } : TRUE

(***************************************************************************)
(* getCacheKey: hash = ((hash << 5) - hash) + char; hash = hash & hash.    *)
(* A 32-bit value is kept as <<high 16 bits, low 16 bits>>, and the key,   *)
(* hash.toString(), as the signed integer the decimal string denotes.      *)
(***************************************************************************)
Two16 == 65536

\* one round of the loop on <<high, low>>: (31 * hash + char) mod 2^32.
\* The set binds hash and char to their values, so each is computed once.
HashStep(hash, char) ==
    CHOOSE next \in
        { <<(31 * h[1] + ((31 * h[2] + c) \div Two16)) % Two16, (31 * h[2] + c) % Two16>> :
            h \in {hash}, c \in {char} } : TRUE

RECURSIVE HashUpTo(_, _)
\* hash after the first n characters of code
HashUpTo(code, n) ==
    IF n = 0 THEN <<0, 0>>
    ELSE HashStep(HashUpTo(code, n - 1), charCodeAt(code[n]))

\* the 32-bit pattern <<high, low>> read as a signed integer
ToInt32(hash) ==
    CHOOSE signed \in
        { IF h[1] >= Two16 \div 2 THEN (h[1] - Two16) * Two16 + h[2]
          ELSE h[1] * Two16 + h[2] : h \in {hash} } : TRUE

getCacheKey(code) == ToInt32(HashUpTo(code, Len(code)))

(***************************************************************************)
(* The pattern of updateInlineDecorations, /^[\s]*(...)/gm, and its exec   *)
(* loop over document.getText()                                            *)
(***************************************************************************)
\* ^ under the m flag: the start of the text or just after a line break
LineStart(text, i) == i = 1 \/ text[i - 1] = "\n"

\* ^[\s]*(...) at index i: the index just past the match, or 0
DeclarationAt(text, i) ==
    IF LineStart(text, i)
    THEN StartPatternAt(text, SkipWhile(text, i, SpaceChars))
    ELSE 0

RECURSIVE NextMatch(_, _)
\* functionRegex.exec(text) with lastIndex = from - 1: match.index + 1, or 0 for null
NextMatch(text, from) ==
    IF from > Len(text) THEN 0
    ELSE IF DeclarationAt(text, from) # 0 THEN from
    ELSE NextMatch(text, from + 1)

RECURSIVE ExecAll(_, _)
\* the indexes of the successive matches of the while loop
ExecAll(text, from) ==
    LET index == NextMatch(text, from)
    IN  IF index = 0 THEN <<>>
        ELSE <<index>> \o ExecAll(text, DeclarationAt(text, index))

(***************************************************************************)
(* Bounds of the model and the inputs it draws from                        *)
(***************************************************************************)
MaxTicks == 2

MaxTimers == 2

MaxCalls == 2

\* the editors of the window (vscode.TextEditor), each on its own document
Editors == {"editorA", "editorB"}

\* vscode.window.activeTextEditor === undefined
NoEditor == "undefined"

\* the values of ComplexityResult.complexity the classifier answers with, two
\* of the three
Verdicts == {"simple", "complex"}

lineAdd == <<"f","u","n","c","t","i","o","n"," ","a","d","d","(","a",",","b",")","{"," ","r","e","t","u","r","n"," ","a","+","b",";"," ","}">>

lineFNoBrace == <<"f","u","n","c","t","i","o","n"," ","f","(",")">>

lineIndentedBrace == <<" "," ","{">>

lineBody == <<" "," ","x",";">>

lineClose == <<"}">>

lineAa == <<"A","a","(",")","{">>

lineBB == <<"B","B","(",")","{">>

\* an empty line
lineBlank == <<>>

\* the document texts an editor can hold: the one-line function alone; two
\* functions of three lines each with an empty line between them, whose texts
\* differ and whose cache keys are the same; a function with its brace on the
\* next line and no closing brace; the first of the two functions alone
DocText ==
    << <<lineAdd>>,
       <<lineAa, lineBody, lineClose, lineBlank, lineBB, lineBody, lineClose>>,
       <<lineFNoBrace, lineIndentedBrace, lineBody>>,
       <<lineAa, lineBody, lineClose>> >>

DocIds == DOMAIN DocText

\* the texts the document of each editor goes through
EditorDocs == [editorA |-> {1, 2, 3}, editorB |-> {4}]

\* a lookup whose key depends on the document the function is in
FoundMutKeyedByDocument(lines, functionRange) ==
    CHOOSE found \in
        { [functionRange |-> functionRange, functionCode |-> functionCode,
           cacheKey |-> getCacheKey(functionCode \o getText(lines))] :
            functionCode \in {getTextRange(lines, functionRange)} } : TRUE

\* what the hover provider computes before it looks in the cache, for a
\* position on each line of each text: functionRange, functionCode, cacheKey
Found(lines, functionRange) ==
    CHOOSE found \in
        { [functionRange |-> functionRange, functionCode |-> functionCode,
           cacheKey |-> getCacheKey(functionCode)] :
            functionCode \in {getTextRange(lines, functionRange)} } : TRUE

HoverLookup(lines, positionLine) ==
    CHOOSE found \in
        { IF functionRange = null
          THEN [functionRange |-> null, functionCode |-> <<>>, cacheKey |-> 0]
          ELSE Found(lines, functionRange) :
            functionRange \in {getFunctionAtPosition(lines, positionLine)} } : TRUE

HoverTable ==
    [d \in DocIds |-> [l \in 1..Len(DocText[d]) |-> HoverLookup(DocText[d], l)]]

RECURSIVE PassLookupFrom(_, _, _, _)
\* what the while loop of updateInlineDecorations computes before it looks
\* in the cache, for the matches from the k-th on: the functionRange,
\* functionCode and cacheKey of every match whose functionRange is not null
PassLookupFrom(lines, text, matches, k) ==
    IF k > Len(matches) THEN <<>>
    ELSE CHOOSE all \in
            { IF found.functionRange = null THEN rest ELSE <<found>> \o rest :
                found \in { HoverLookup(lines, startLine) :
                               startLine \in {positionAtLine(text, matches[k])} },
                rest \in {PassLookupFrom(lines, text, matches, k + 1)} } : TRUE

PassLookupIn(lines, text) ==
    CHOOSE all \in
        { PassLookupFrom(lines, text, matches, 1) :
            matches \in {ExecAll(text, 1)} } : TRUE

PassLookup(lines) ==
    CHOOSE all \in { PassLookupIn(lines, text) : text \in {getText(lines)} } : TRUE

PassTable == [d \in DocIds |-> PassLookup(DocText[d])]

(***************************************************************************)
(* Program constants                                                       *)
(***************************************************************************)
CACHE_DURATION == 5 * 60 * 1000

\* the delay of the setTimeout started by a text change
TimeoutDelay == 500

\* the amounts by which the clock moves: the time to live, so that an entry
\* is looked up at its own instant, at the instant it is as old as the time
\* to live and later; a timer is due at every instant after the one it was
\* set at
TickSteps == {CACHE_DURATION}

(***************************************************************************)
(* State                                                                   *)
(***************************************************************************)
VARIABLES
    inlineEnabled,      \* ComplexityAnalyzer.inlineEnabled
    complexityCache,    \* ComplexityAnalyzer.complexityCache: key -> entry
    activeTextEditor,   \* vscode.window.activeTextEditor
    document,           \* editor -> the text of its document, an index of DocText
    decorations,        \* editor -> what setDecorations last gave it
    timers,             \* the pending setTimeout callbacks, in the order set
    inFlight,           \* the calls of apiClient.analyzeCode not yet answered, a bag
    now,                \* Date.now()
    classifyCalls,      \* how many calls of apiClient.analyzeCode were issued
    nTicks,             \* how many times the clock has moved
    lastOp              \* the handler that ran last and what it did

vars == <<inlineEnabled, complexityCache, activeTextEditor, document, decorations,
          timers, inFlight, now, classifyCalls, nTicks, lastOp>>

\* what lastOp records of a step: the handler, the outcome of a query, the
\* verdict involved and the notification shown
Op(name, outcome, verdict, notice) ==
    [name |-> name, outcome |-> outcome, verdict |-> verdict, notice |-> notice]

Lines(editor) == DocText[document[editor]]

(***************************************************************************)
(* The cache                                                               *)
(***************************************************************************)
\* cached && Date.now() - cached.timestamp < this.CACHE_DURATION
CacheHitMutNoExpiry(cache, key, t) == key \in DOMAIN cache

CacheHit(cache, key, t) ==
    key \in DOMAIN cache /\ t - cache[key].timestamp < CACHE_DURATION

\* a set that keeps the entry a key already has
CacheSetMutKeepsFirst(cache, key, result, code, t) ==
    [k \in DOMAIN cache \cup {key} |->
        IF k \in DOMAIN cache THEN cache[k]
        ELSE [result |-> result, code |-> code, timestamp |-> t]]

\* this.complexityCache.set(cacheKey, {result, code, timestamp: Date.now()})
CacheSet(cache, key, result, code, t) ==
    [k \in DOMAIN cache \cup {key} |->
        IF k = key THEN [result |-> result, code |-> code, timestamp |-> t]
        ELSE cache[k]]

(***************************************************************************)
(* What a cache miss does on each path: the hover provider calls           *)
(* apiClient.analyzeCode, updateInlineDecorations does nothing             *)
(***************************************************************************)
MissRequestsMutEager(path, code, key) ==
    SetToBag({[origin |-> path, code |-> code, cacheKey |-> key]})

\* a miss that issues no call while one for the same text is in flight
MissRequestsMutCoalesced(path, code, key) ==
    IF path = "pass" \/ [origin |-> path, code |-> code, cacheKey |-> key]
                           \in BagToSet(inFlight)
    THEN EmptyBag
    ELSE SetToBag({[origin |-> path, code |-> code, cacheKey |-> key]})

MissRequests(path, code, key) ==
    IF path = "pass" THEN EmptyBag
    ELSE SetToBag({[origin |-> path, code |-> code, cacheKey |-> key]})

(***************************************************************************)
(* updateInlineDecorations                                                 *)
(***************************************************************************)
\* createInlineDecoration: a marker at range.start showing result.complexity
createInlineDecoration(range, result) ==
    [line |-> range.startLine, complexity |-> result]

RECURSIVE PassOver(_, _, _, _)
\* the while loop over the located functions from the k-th on: the
\* decorations pushed and the requests issued
PassOver(found, k, cache, t) ==
    IF k > Len(found) THEN [decorations |-> <<>>, requests |-> EmptyBag]
    ELSE LET rest == PassOver(found, k + 1, cache, t)
         IN  IF CacheHit(cache, found[k].cacheKey, t)
             THEN [rest EXCEPT !.decorations =
                        <<createInlineDecoration(found[k].functionRange,
                                                 cache[found[k].cacheKey].result)>>
                        \o rest.decorations]
             ELSE [rest EXCEPT !.requests =
                        MissRequests("pass", found[k].functionCode, found[k].cacheKey)
                        (+) rest.requests]

Pass(text, cache, t) == PassOver(PassTable[text], 1, cache, t)

\* updateInlineDecorations(editor) with this.inlineEnabled = enabled
updateInlineDecorations(editor, enabled) ==
    IF ~enabled
    THEN UNCHANGED <<decorations, inFlight, classifyCalls>>
    ELSE LET pass == Pass(document[editor], complexityCache, now)
         IN  /\ decorations' = [decorations EXCEPT ![editor] = pass.decorations]
             /\ inFlight' = inFlight (+) pass.requests
             /\ classifyCalls' = classifyCalls + BagCardinality(pass.requests)

(***************************************************************************)
(* Initial state: the constructor has run, setupInlineDecorations has made *)
(* its initial pass, over the document of the active editor                *)
(***************************************************************************)
Init ==
    /\ inlineEnabled = TRUE
    /\ complexityCache = <<>>
    /\ activeTextEditor \in Editors
    /\ document \in [Editors -> DocIds]
    /\ \A e \in Editors : document[e] \in EditorDocs[e]
    /\ decorations =
            [e \in Editors |->
                IF e = activeTextEditor
                THEN Pass(document[e], complexityCache, 0).decorations
                ELSE <<>>]
    /\ timers = <<>>
    /\ inFlight = Pass(document[activeTextEditor], complexityCache, 0).requests
    /\ now = 0
    /\ classifyCalls = BagCardinality(inFlight)
    /\ nTicks = 0
    /\ lastOp = Op("init", "none", "none", "none")

(***************************************************************************)
(* Handlers                                                                *)
(***************************************************************************)
\* vscode.window.onDidChangeActiveTextEditor(editor => ...)
onDidChangeActiveTextEditor(editor) ==
    /\ editor # activeTextEditor
    /\ activeTextEditor' = editor
    /\ IF editor # NoEditor
       THEN updateInlineDecorations(editor, inlineEnabled)
       ELSE UNCHANGED <<decorations, inFlight, classifyCalls>>
    /\ lastOp' = Op("activate", "none", "none", "none")
    /\ UNCHANGED <<inlineEnabled, complexityCache, document, timers, now, nTicks>>

\* a text-change handler that starts no timer
onDidChangeTextDocumentMutNoTimer(editor, text) ==
    /\ text \in EditorDocs[editor] \ {document[editor]}
    /\ document' = [document EXCEPT ![editor] = text]
    /\ lastOp' = Op("edit", "none", "none", "none")
    /\ UNCHANGED <<inlineEnabled, complexityCache, activeTextEditor, decorations,
                   timers, inFlight, now, classifyCalls, nTicks>>

\* vscode.workspace.onDidChangeTextDocument(event => ...), the event being a
\* change of the document of `editor` to the text DocText[text]
onDidChangeTextDocument(editor, text) ==
    LET schedules == /\ activeTextEditor # NoEditor
                     /\ editor = activeTextEditor
                     /\ inlineEnabled
    IN  /\ text \in EditorDocs[editor] \ {document[editor]}
        /\ schedules => Len(timers) < MaxTimers
        /\ document' = [document EXCEPT ![editor] = text]
        /\ timers' = IF schedules
                     THEN Append(timers, [editor |-> activeTextEditor,
                                          due |-> now + TimeoutDelay])
                     ELSE timers
        /\ lastOp' = Op("edit", "none", "none", "none")
        /\ UNCHANGED <<inlineEnabled, complexityCache, activeTextEditor, decorations,
                       inFlight, now, classifyCalls, nTicks>>

\* a callback that reads vscode.window.activeTextEditor when it runs
TimerFireMutActiveEditor ==
    /\ timers # <<>>
    /\ timers[1].due <= now
    /\ timers' = Tail(timers)
    /\ updateInlineDecorations(activeTextEditor, inlineEnabled)
    /\ lastOp' = Op("fire", "none", "none", "none")
    /\ UNCHANGED <<inlineEnabled, complexityCache, activeTextEditor, document,
                   now, nTicks>>

\* the callback of setTimeout(() => this.updateInlineDecorations(editor), 500)
TimerFire ==
    /\ timers # <<>>
    /\ timers[1].due <= now
    /\ timers' = Tail(timers)
    /\ updateInlineDecorations(timers[1].editor, inlineEnabled)
    /\ lastOp' = Op("fire", "none", "none", "none")
    /\ UNCHANGED <<inlineEnabled, complexityCache, activeTextEditor, document,
                   now, nTicks>>

\* toggleInlineAnalysis()
toggleInlineAnalysis ==
    /\ inlineEnabled' = ~inlineEnabled
    /\ IF activeTextEditor = NoEditor
       THEN UNCHANGED <<decorations, inFlight, classifyCalls>>
       ELSE IF inlineEnabled'
       THEN updateInlineDecorations(activeTextEditor, inlineEnabled')
       ELSE /\ decorations' = [decorations EXCEPT ![activeTextEditor] = <<>>]
            /\ UNCHANGED <<inFlight, classifyCalls>>
    /\ lastOp' = Op("toggle", "none", "none", "info")
    /\ UNCHANGED <<complexityCache, activeTextEditor, document, timers, now, nTicks>>

\* provideHover(document, position) up to its return or its await
provideHover(editor, positionLine) ==
    LET found == HoverTable[document[editor]][positionLine]
        functionRange == found.functionRange
        functionCode == found.functionCode
        cacheKey == found.cacheKey
        requests == MissRequests("hover", functionCode, cacheKey)
    IN  /\ positionLine \in 1..Len(Lines(editor))
        /\ IF functionRange = null
           THEN /\ lastOp' = Op("hover", "null", "none", "none")
                /\ UNCHANGED <<inFlight, classifyCalls>>
           ELSE IF CacheHit(complexityCache, cacheKey, now)
           THEN /\ lastOp' = Op("hover", "hit",
                                complexityCache[cacheKey].result, "none")
                /\ UNCHANGED <<inFlight, classifyCalls>>
           ELSE /\ classifyCalls + BagCardinality(requests) <= MaxCalls
                /\ inFlight' = inFlight (+) requests
                /\ classifyCalls' = classifyCalls + BagCardinality(requests)
                /\ lastOp' = Op("hover", "miss", "none", "none")
        /\ UNCHANGED <<inlineEnabled, complexityCache, activeTextEditor, document,
                       decorations, timers, now, nTicks>>

\* the text of a selection of whole lines; <<0, 0>> is the empty selection,
\* for which getText(undefined) gives the whole document
SelectionText(lines, selection) ==
    IF selection = <<0, 0>> THEN getText(lines)
    ELSE JoinLines(lines, selection[1], selection[2])

\* the selections drawn: none, or the lines of a function as the hover
\* provider finds it
Selections(lines) ==
    {<<0, 0>>} \cup
    { <<range.startLine, range.endLine>> :
        range \in { getFunctionAtPosition(lines, l) : l \in 1..Len(lines) } \ {null} }

SelectionTable ==
    [d \in DocIds |-> [sel \in Selections(DocText[d]) |-> SelectionText(DocText[d], sel)]]

\* what analyzeSelection does with the text: the cache is not consulted
ManualRequests(cache, code, t) == SetToBag({[origin |-> "manual", code |-> code]})

\* analyzeSelection() up to its return, editor.selection being any of the
\* selections drawn
analyzeSelection ==
    IF activeTextEditor = NoEditor
    THEN /\ lastOp' = Op("manual", "error", "none", "error")
         /\ UNCHANGED <<inlineEnabled, complexityCache, activeTextEditor, document,
                        decorations, timers, inFlight, now, classifyCalls, nTicks>>
    ELSE \E selection \in DOMAIN SelectionTable[document[activeTextEditor]] :
         LET code == SelectionTable[document[activeTextEditor]][selection]
             requests == ManualRequests(complexityCache, code, now)
         IN  /\ IF TrimIsEmpty(code)
                THEN /\ lastOp' = Op("manual", "error", "none", "error")
                     /\ UNCHANGED <<inFlight, classifyCalls>>
                ELSE /\ classifyCalls + BagCardinality(requests) <= MaxCalls
                     /\ inFlight' = inFlight (+) requests
                     /\ classifyCalls' = classifyCalls + BagCardinality(requests)
                     /\ lastOp' = Op("manual",
                                     IF requests = EmptyBag THEN "hit" ELSE "miss",
                                     "none", "none")
             /\ UNCHANGED <<inlineEnabled, complexityCache, activeTextEditor, document,
                            decorations, timers, now, nTicks>>

\* the calls of complexityCache.set made when a call resolves: only the hover
\* provider stores
SetsOnSuccess(request, result, t) ==
    IF request.origin = "manual" THEN <<>>
    ELSE <<[cacheKey |-> request.cacheKey, result |-> result,
            code |-> request.code, timestamp |-> t]>>

RECURSIVE ApplySets(_, _)
ApplySets(cache, sets) ==
    IF sets = <<>> THEN cache
    ELSE ApplySets(CacheSet(cache, sets[1].cacheKey, sets[1].result, sets[1].code,
                            sets[1].timestamp),
                   Tail(sets))

\* a resolution after which the hover provider refreshes the decorations of
\* the active editor
ClassifyResolvesMutRefreshes(request, result) ==
    /\ inFlight' = inFlight (-) SetToBag({request})
    /\ complexityCache' = ApplySets(complexityCache, SetsOnSuccess(request, result, now))
    /\ decorations' =
          [decorations EXCEPT ![activeTextEditor] =
              IF inlineEnabled /\ request.origin = "hover"
              THEN Pass(document[activeTextEditor], complexityCache', now).decorations
              ELSE @]
    /\ lastOp' = Op(request.origin, "success", result,
                    IF request.origin = "manual" THEN "info" ELSE "none")
    /\ UNCHANGED <<inlineEnabled, activeTextEditor, document, timers,
                   now, classifyCalls, nTicks>>

\* apiClient.analyzeCode resolves with `result` for a call in flight
ClassifyResolves(request, result) ==
    /\ inFlight' = inFlight (-) SetToBag({request})
    /\ complexityCache' = ApplySets(complexityCache, SetsOnSuccess(request, result, now))
    /\ lastOp' = Op(request.origin, "success", result,
                    IF request.origin = "manual" THEN "info" ELSE "none")
    /\ UNCHANGED <<inlineEnabled, activeTextEditor, document, decorations, timers,
                   now, classifyCalls, nTicks>>

\* the calls of complexityCache.set made when a call fails: none, the catch
\* blocks only log
SetsOnFailureMutStores(request, t) ==
    IF request.origin = "manual" THEN <<>>
    ELSE <<[cacheKey |-> request.cacheKey, result |-> "simple",
            code |-> request.code, timestamp |-> t]>>

SetsOnFailure(request, t) == <<>>

\* apiClient.analyzeCode shows its error message and throws for a call in flight
ClassifyRejects(request) ==
    /\ inFlight' = inFlight (-) SetToBag({request})
    /\ complexityCache' = ApplySets(complexityCache, SetsOnFailure(request, now))
    /\ lastOp' = Op(request.origin, "failure", "none", "error")
    /\ UNCHANGED <<inlineEnabled, activeTextEditor, document,
                   decorations, timers, now, classifyCalls, nTicks>>

\* time passes; a timer that is due runs before the clock moves again
Tick(step) ==
    /\ nTicks < MaxTicks
    /\ timers # <<>> => timers[1].due > now
    /\ now' = now + step
    /\ nTicks' = nTicks + 1
    /\ lastOp' = Op("tick", "none", "none", "none")
    /\ UNCHANGED <<inlineEnabled, complexityCache, activeTextEditor, document,
                   decorations, timers, inFlight, classifyCalls>>

Next ==
    \/ \E editor \in Editors : onDidChangeActiveTextEditor(editor)
    \/ \E editor \in Editors, text \in DocIds : onDidChangeTextDocument(editor, text)
    \/ TimerFire
    \/ toggleInlineAnalysis
    \/ \E editor \in Editors : \E positionLine \in 1..Len(Lines(editor)) :
            provideHover(editor, positionLine)
    \/ analyzeSelection
    \/ \E request \in BagToSet(inFlight), result \in Verdicts :
            ClassifyResolves(request, result)
    \/ \E request \in BagToSet(inFlight) : ClassifyRejects(request)
    \/ \E step \in TickSteps : Tick(step)

Spec == Init /\ [][Next]_vars

(***************************************************************************)
(* The system with its scheduling: the event loop runs the callback of a   *)
(* timer that is due, and time passes.  A timer is started only while the  *)
(* clock of the model can still reach the time it is due at.               *)
(***************************************************************************)
LiveNext ==
    \/ \E editor \in Editors : onDidChangeActiveTextEditor(editor)
    \/ \E editor \in Editors, text \in DocIds :
            /\ (editor = activeTextEditor /\ inlineEnabled) => nTicks < MaxTicks
            /\ onDidChangeTextDocument(editor, text)
    \/ TimerFire
    \/ toggleInlineAnalysis
    \/ \E editor \in Editors : \E positionLine \in 1..Len(Lines(editor)) :
            provideHover(editor, positionLine)
    \/ analyzeSelection
    \/ \E request \in BagToSet(inFlight), result \in Verdicts :
            ClassifyResolves(request, result)
    \/ \E request \in BagToSet(inFlight) : ClassifyRejects(request)
    \/ \E step \in TickSteps : Tick(step)

LiveSpec ==
    /\ Init
    /\ [][LiveNext]_vars
    /\ WF_vars(TimerFire)
    /\ WF_vars(\E step \in TickSteps : Tick(step))

(***************************************************************************)
(* Notions of the documents the properties are stated with, defined on the *)
(* text alone                                                              *)
(***************************************************************************)
RECURSIVE Balance(_, _)
\* the brace balance of the first n characters of a text
Balance(text, n) ==
    IF n = 0 THEN 0
    ELSE CHOOSE b \in
            { before + (IF text[n] = "{" THEN 1 ELSE IF text[n] = "}" THEN -1 ELSE 0) :
                before \in {Balance(text, n - 1)} } : TRUE

\* where the balance of a text is back at zero for the first time after it
\* left zero, 0 if it never is
CloseIndex(text) ==
    LET back == { n \in 1..Len(text) :
                    /\ Balance(text, n) = 0
                    /\ \E m \in 1..(n - 1) : Balance(text, m) # 0 }
    IN  IF back = {} THEN 0 ELSE CHOOSE n \in back : \A m \in back : n <= m

\* the line of a document on which the function declared on line s closes,
\* 0 if it does not close before the document ends
CloseLine(lines, s) ==
    LET text == JoinLines(lines, s, Len(lines))
        n == CloseIndex(text)
    IN  IF n = 0 THEN 0
        ELSE s + Cardinality({ m \in 1..n : text[m] = "\n" })

\* the lines of each text below the declaration line of a function that
\* closes on a later line, up to the line it closes on
BodyLines ==
    [d \in DocIds |->
        { p \in 1..Len(DocText[d]) :
            \E s \in 1..(p - 1) :
                /\ functionRegexTest(DocText[d][s])
                /\ CloseLine(DocText[d], s) >= p }]

\* the lines of each text from the declaration line of a function that does
\* not close to the end of the text
UnterminatedLines ==
    [d \in DocIds |->
        { p \in 1..Len(DocText[d]) :
            \E s \in 1..p :
                /\ functionRegexTest(DocText[d][s])
                /\ CloseLine(DocText[d], s) = 0 }]

\* the declaration lines of the functions of each text that do not close
UnterminatedStarts ==
    [d \in DocIds |->
        { s \in 1..Len(DocText[d]) :
            /\ functionRegexTest(DocText[d][s])
            /\ CloseLine(DocText[d], s) = 0 }]


\* the functions the hover provider finds in the texts: their code and key
LocatedFunctions ==
    { [functionCode |-> HoverTable[d][l].functionCode,
       cacheKey |-> HoverTable[d][l].cacheKey] :
        <<d, l>> \in { dl \in DocIds \X (1..7) :
                         /\ dl[2] <= Len(DocText[dl[1]])
                         /\ HoverTable[dl[1]][dl[2]].functionRange # null } }

(***************************************************************************)
(* Properties                                                              *)
(***************************************************************************)
\* the timer at the head of the queue was followed, within the delay, by a
\* later text change of the same document
Superseded(pending) ==
    \E k \in 2..Len(pending) :
        /\ pending[k].editor = pending[1].editor
        /\ pending[k].due - pending[1].due < TimeoutDelay

\* the step is the callback of a timer and it runs updateInlineDecorations
\* past its test of inlineEnabled, up to setDecorations
TimerRunsPass == lastOp'.name = "fire" /\ inlineEnabled

\* C1: of the text changes that follow each other within the debounce delay
\* only the last one's timer executes a pass: the callback of a timer that a
\* later change superseded never runs a pass
C1_SupersededTimerRunsNoPass ==
    [][Superseded(timers) => ~TimerRunsPass]_vars

\* C2: a hover on the line of a document that is the single line
\* `function add(a,b){ return a+b; }`, the cache being empty, issues exactly
\* one classify call, for exactly that text
C2_SingleLineHoverClassifies ==
    [][\A e \in Editors :
          (provideHover(e, 1) /\ Lines(e) = <<lineAdd>> /\ complexityCache = <<>>)
          => /\ classifyCalls' = classifyCalls + 1
             /\ \E r \in BagToSet(inFlight') :
                   /\ r.code = lineAdd
                   /\ CopiesIn(r, inFlight') = CopiesIn(r, inFlight) + 1]_vars

\* C3: a hover on a line of the body of a well-nested function (a line below
\* its declaration, up to the line that closes it) finds a function
C3_BodyLineLocated ==
    [][\A e \in Editors : \A l \in 1..Len(Lines(e)) :
          (provideHover(e, l) /\ l \in BodyLines[document[e]])
          => lastOp'.outcome # "null"]_vars

\* C4: the number of classify calls changes only in a step of the hover
\* provider or of the manual analysis that misses; a step that runs a pass
\* (a view activation, a timer callback, a toggle) leaves the calls issued
\* and the calls in flight as they were, whatever the cache holds
C4_PassIssuesNoCall ==
    [][/\ classifyCalls' # classifyCalls
          => lastOp'.name \in {"hover", "manual"} /\ lastOp'.outcome = "miss"
       /\ lastOp'.name \in {"activate", "fire", "toggle"}
          => classifyCalls' = classifyCalls /\ inFlight' = inFlight]_vars

\* a view was activated and its pass ran over a function that the cache,
\* which is not empty, does not answer for; no call is in flight
C4_Witness ==
    /\ lastOp.name = "activate"
    /\ inlineEnabled
    /\ complexityCache # <<>>
    /\ inFlight = EmptyBag
    /\ \E k \in DOMAIN PassTable[document[activeTextEditor]] :
          ~CacheHit(complexityCache,
                    PassTable[document[activeTextEditor]][k].cacheKey, now)

\* an entry has not expired as long as now - createdAt is not greater than
\* the time to live
Unexpired(entry, t) == ~(t - entry.timestamp > CACHE_DURATION)

\* C5: a hover on a function for whose text the cache holds an entry that has
\* not expired returns that entry's verdict, issues no classify call and
\* leaves the cache as it is
C5_UnexpiredEntryIsHit ==
    [][\A e \in Editors : \A l \in 1..Len(Lines(e)) :
          LET found == HoverTable[document[e]][l]
          IN  (/\ lastOp'.name = "hover"
               /\ found.functionRange # null
               /\ found.cacheKey \in DOMAIN complexityCache
               /\ complexityCache[found.cacheKey].code = found.functionCode
               /\ Unexpired(complexityCache[found.cacheKey], now)
               /\ provideHover(e, l))
              => /\ lastOp'.outcome = "hit"
                 /\ lastOp'.verdict = complexityCache[found.cacheKey].result
                 /\ classifyCalls' = classifyCalls
                 /\ complexityCache' = complexityCache]_vars


\* the step stores a verdict for the text `code`
StoresFor(code) ==
    \E request \in BagToSet(inFlight), result \in Verdicts :
        /\ request.origin = "hover"
        /\ request.code = code
        /\ ClassifyResolves(request, result)

\* the editor whose document the pass of the step runs over, if it runs one
PassEditor ==
    IF lastOp'.name = "activate" THEN activeTextEditor'
    ELSE IF lastOp'.name = "fire" THEN timers[1].editor
    ELSE activeTextEditor

\* the step runs updateInlineDecorations up to setDecorations
RunsPass == lastOp'.name \in {"activate", "fire", "toggle"} /\ inlineEnabled'

\* C6 as stated: once a verdict v is stored for a text c at T, a step that is
\* not a store for c leaves a lookup of c before T + ttl answering v
C6_StoredVerdictReturned ==
    [][\A f \in LocatedFunctions :
          (/\ f.cacheKey \in DOMAIN complexityCache
           /\ complexityCache[f.cacheKey].code = f.functionCode
           /\ now' < complexityCache[f.cacheKey].timestamp + CACHE_DURATION
           /\ ~StoresFor(f.functionCode))
          => /\ CacheHit(complexityCache', f.cacheKey, now')
             /\ complexityCache'[f.cacheKey].result
                    = complexityCache[f.cacheKey].result]_vars

\* C6 amended: the entry of a key changes only in a store under that key,
\* which leaves the verdict stored, the text and the time of the store; and
\* when the last store under the key of a text c was for c, with verdict v at
\* time T, a hover on c before T + ttl returns v without a classify call and
\* a pass gives c a marker showing v, a hover on c after T + ttl issues a
\* classify call and a pass gives c no marker
C6_TTL ==
    [][/\ \A key \in DOMAIN complexityCache' :
             (key \notin DOMAIN complexityCache
              \/ complexityCache'[key] # complexityCache[key])
             => /\ lastOp'.name = "hover" /\ lastOp'.outcome = "success"
                /\ complexityCache'[key].result = lastOp'.verdict
                /\ complexityCache'[key].timestamp = now
                /\ StoresFor(complexityCache'[key].code)
       /\ DOMAIN complexityCache \subseteq DOMAIN complexityCache'
       /\ \A e \in Editors : \A l \in 1..Len(Lines(e)) :
             LET found == HoverTable[document[e]][l]
                 entry == complexityCache[found.cacheKey]
             IN  (/\ lastOp'.name = "hover"
                  /\ found.functionRange # null
                  /\ found.cacheKey \in DOMAIN complexityCache
                  /\ entry.code = found.functionCode
                  /\ provideHover(e, l))
                 => /\ now < entry.timestamp + CACHE_DURATION
                       => /\ lastOp'.outcome = "hit"
                          /\ lastOp'.verdict = entry.result
                          /\ classifyCalls' = classifyCalls
                    /\ now > entry.timestamp + CACHE_DURATION
                       => /\ lastOp'.outcome = "miss"
                          /\ classifyCalls' = classifyCalls + 1
       /\ RunsPass
          => \A k \in DOMAIN PassTable[document[PassEditor]] :
                LET found == PassTable[document[PassEditor]][k]
                    entry == complexityCache[found.cacheKey]
                    marker == createInlineDecoration(found.functionRange, entry.result)
                    shown == { decorations'[PassEditor][j] :
                                 j \in DOMAIN decorations'[PassEditor] }
                IN  (/\ found.cacheKey \in DOMAIN complexityCache
                     /\ entry.code = found.functionCode)
                    => /\ now < entry.timestamp + CACHE_DURATION
                          => marker \in shown
                       /\ now > entry.timestamp + CACHE_DURATION
                          => \A m \in shown : m.line # found.functionRange.startLine]_vars

\* a hover on a function whose entry is older than the time to live has just
\* issued a classify call for its text
C6_Witness ==
    /\ lastOp.name = "hover"
    /\ lastOp.outcome = "miss"
    /\ \E key \in DOMAIN complexityCache :
          /\ now > complexityCache[key].timestamp + CACHE_DURATION
          /\ \E r \in BagToSet(inFlight) :
                /\ r.origin = "hover"
                /\ r.cacheKey = key
                /\ r.code = complexityCache[key].code

\* C7: a hover on a line of a function that does not close before the
\* document ends finds no function, and no pass gives a marker to such a
\* function
C7_UnterminatedNotLocated ==
    [][/\ \A e \in Editors : \A l \in 1..Len(Lines(e)) :
             (provideHover(e, l) /\ l \in UnterminatedLines[document[e]])
             => lastOp'.outcome = "null"
       /\ \A e \in Editors :
             decorations'[e] # decorations[e]
             => \A k \in DOMAIN decorations'[e] :
                   decorations'[e][k].line \notin UnterminatedStarts[document'[e]]]_vars

\* C8: the manual analysis of a selected function text issues no classify
\* call while the cache holds an entry for that text younger than the time
\* to live, and when its call succeeds the verdict is in the cache for that
\* text
C8_ManualUsesCache ==
    [][/\ (lastOp'.name = "manual" /\ lastOp'.outcome = "miss")
          => \A r \in BagToSet(inFlight') : \A f \in LocatedFunctions :
                (/\ r.origin = "manual"
                 /\ CopiesIn(r, inFlight') > CopiesIn(r, inFlight)
                 /\ f.functionCode = r.code
                 /\ f.cacheKey \in DOMAIN complexityCache
                 /\ complexityCache[f.cacheKey].code = r.code)
                => ~(now < complexityCache[f.cacheKey].timestamp + CACHE_DURATION)
       /\ \A request \in BagToSet(inFlight), result \in Verdicts :
             \A f \in LocatedFunctions :
                (/\ request.origin = "manual"
                 /\ ClassifyResolves(request, result)
                 /\ f.functionCode = request.code)
                => /\ CacheHit(complexityCache', f.cacheKey, now')
                   /\ complexityCache'[f.cacheKey].result = result]_vars

\* C9: the step that switches the analysis off leaves every editor without
\* decorations, and while the analysis is off no text change, view
\* activation or timer callback starts a timer or changes the decorations
C9_OffClearsAllViews ==
    [][/\ (lastOp'.name = "toggle" /\ ~inlineEnabled')
          => \A e \in Editors : decorations'[e] = <<>>
       /\ (~inlineEnabled /\ lastOp'.name \in {"edit", "activate", "fire"})
          => /\ decorations' = decorations
             /\ Len(timers') <= Len(timers)]_vars

\* C10: the step that switches the analysis on runs one pass, over the
\* document of the active editor; the timers pending then were pending when
\* the analysis was switched off, and the callback of none of them runs a
\* pass in the step after
C10_ReenableRunsOnePass ==
    [][/\ (lastOp'.name = "toggle" /\ inlineEnabled')
          => decorations'[activeTextEditor]
                = Pass(document[activeTextEditor], complexityCache, now).decorations
       /\ (lastOp.name = "toggle" /\ inlineEnabled) => ~TimerRunsPass]_vars

\* C11: when a classify call issued by the hover provider fails, nothing is
\* shown to the user
C11_HoverFailureSilent ==
    (lastOp.name = "hover" /\ lastOp.outcome = "failure") => lastOp.notice = "none"

\* C12: a step in which a classify call fails leaves the cache as it is, no
\* entry added, replaced or removed; and so a hover made in the state the
\* failure leads to, on a function the cache does not answer for, issues a
\* classify call for its text
C12_FailureLeavesCache ==
    [][/\ lastOp'.outcome = "failure" => complexityCache' = complexityCache
       /\ (lastOp.outcome = "failure" /\ lastOp'.name = "hover")
          => \A e \in Editors : \A l \in 1..Len(Lines(e)) :
                LET found == HoverTable[document[e]][l]
                    r == [origin |-> "hover", code |-> found.functionCode,
                          cacheKey |-> found.cacheKey]
                IN  (/\ found.functionRange # null
                     /\ ~CacheHit(complexityCache, found.cacheKey, now)
                     /\ provideHover(e, l))
                    => /\ lastOp'.outcome = "miss"
                       /\ classifyCalls' = classifyCalls + 1
                       /\ CopiesIn(r, inFlight') = CopiesIn(r, inFlight) + 1]_vars

\* a classify call of the hover provider has just failed while the cache
\* holds the verdict of an earlier call
C12_Witness ==
    /\ lastOp.name = "hover"
    /\ lastOp.outcome = "failure"
    /\ complexityCache # <<>>

\* the markers a pass over the text d is to leave by the rule of replacement:
\* one for each function the pass locates for whose text the cache, looked
\* up by the key of the text, holds an entry that has not expired, showing
\* the verdict of that entry
ExpectedMarkers(d, cache, t) ==
    { createInlineDecoration(PassTable[d][k].functionRange,
                             cache[PassTable[d][k].cacheKey].result) :
        k \in { j \in DOMAIN PassTable[d] :
                  /\ PassTable[d][j].cacheKey \in DOMAIN cache
                  /\ Unexpired(cache[PassTable[d][j].cacheKey], t) } }

\* C13: a step that runs a pass leaves the editor of the pass with exactly
\* one marker for each located function whose text has an unexpired entry,
\* showing the verdict of the entry, and with no other marker
C13_PassReplacesAll ==
    [][RunsPass
       => /\ { decorations'[PassEditor][j] : j \in DOMAIN decorations'[PassEditor] }
                = ExpectedMarkers(document[PassEditor], complexityCache, now)
          /\ Len(decorations'[PassEditor])
                = Cardinality(ExpectedMarkers(document[PassEditor], complexityCache, now))]_vars

\* C14: the cache is shared by the documents: when the entry under the key
\* of a function text was stored for that text less than the time to live
\* ago, a hover on the function in any editor whose document holds it, the
\* one whose hover stored the entry or another, returns the verdict without
\* a classify call, and a pass over any document that holds the function as
\* one the pass locates gives it a marker showing the verdict
C14_SharedAcrossDocuments ==
    [][\A key \in DOMAIN complexityCache :
          now < complexityCache[key].timestamp + CACHE_DURATION
          => /\ lastOp'.name = "hover"
                => \A e \in Editors : \A l \in 1..Len(Lines(e)) :
                      (/\ HoverTable[document[e]][l].functionCode
                             = complexityCache[key].code
                       /\ provideHover(e, l))
                      => /\ lastOp'.outcome = "hit"
                         /\ lastOp'.verdict = complexityCache[key].result
                         /\ classifyCalls' = classifyCalls
                         /\ inFlight' = inFlight
             /\ RunsPass
                => \A k \in DOMAIN PassTable[document[PassEditor]] :
                      PassTable[document[PassEditor]][k].functionCode
                         = complexityCache[key].code
                      => \E j \in DOMAIN decorations'[PassEditor] :
                            decorations'[PassEditor][j] =
                               createInlineDecoration(
                                  PassTable[document[PassEditor]][k].functionRange,
                                  complexityCache[key].result)]_vars

\* one classify call was issued in all, and the verdict it brought is shown
\* by a marker in each of two editors, whose documents differ and both hold
\* the function
C14_Witness ==
    /\ classifyCalls = 1
    /\ inFlight = EmptyBag
    /\ document["editorA"] # document["editorB"]
    /\ \A e \in Editors :
          /\ decorations[e] # <<>>
          /\ \E k \in DOMAIN PassTable[document[e]] :
                /\ PassTable[document[e]][k].cacheKey \in DOMAIN complexityCache
                /\ PassTable[document[e]][k].functionCode
                      = complexityCache[PassTable[document[e]][k].cacheKey].code

\* C15: the decorations of an editor change only in a step that runs a pass
\* over the document of that editor or that switches the analysis off while
\* it is the active one; the callback of a timer runs its pass over the
\* editor whose text change started the timer, whichever editor is active
\* when it runs, and leaves the decorations of every other editor as they are
C15_PassTouchesOneView ==
    [][/\ \A e \in Editors :
             decorations'[e] # decorations[e]
             => /\ lastOp'.name \in {"activate", "fire", "toggle"}
                /\ e = PassEditor
       /\ (lastOp'.name = "fire" /\ inlineEnabled)
          => decorations'[timers[1].editor]
                = Pass(document[timers[1].editor], complexityCache, now).decorations]_vars

\* the callback of a timer has just run while the other editor is the active
\* one (text changes are made to the document of editorA only); both editors
\* show markers
C15_Witness ==
    /\ lastOp.name = "fire"
    /\ inlineEnabled
    /\ activeTextEditor = "editorB"
    /\ decorations["editorA"] # <<>>
    /\ decorations["editorB"] # <<>>

\* C16: the span a hover finds ends on the first line after its start line
\* on which the brace count, started at zero on the start line, is back at
\* zero after it has left zero, and the brace balance of the text of the span
\* is zero
C16_SpanEndsWhereBalanceReturns ==
    [][\A e \in Editors : \A l \in 1..Len(Lines(e)) :
          LET found == HoverTable[document[e]][l]
          IN  (/\ lastOp'.name = "hover"
               /\ found.functionRange # null
               /\ provideHover(e, l))
              => /\ found.functionRange.endLine > found.functionRange.startLine
                 /\ found.functionRange.endLine
                       = CloseLine(Lines(e), found.functionRange.startLine)
                 /\ Balance(found.functionCode, Len(found.functionCode)) = 0]_vars

\* the lines of each text that match the function pattern and for which
\* getFunctionAtPosition at the line gives a span
DeclaredFunctions ==
    [d \in DocIds |->
        { l \in 1..Len(DocText[d]) :
            /\ functionRegexTest(DocText[d][l])
            /\ HoverTable[d][l].functionRange # null }]

\* C17: a pass considers every function declared on a line of the document
\* at which getFunctionAtPosition gives a span: when the cache holds, for
\* the text of such a function, an entry younger than the time to live, the
\* pass leaves a marker on the line of its declaration
C17_PassCoversEveryDeclaration ==
    [][RunsPass
       => \A l \in DeclaredFunctions[document[PassEditor]] :
             LET found == HoverTable[document[PassEditor]][l]
             IN  (/\ found.cacheKey \in DOMAIN complexityCache
                  /\ complexityCache[found.cacheKey].code = found.functionCode
                  /\ now < complexityCache[found.cacheKey].timestamp + CACHE_DURATION)
                 => \E j \in DOMAIN decorations'[PassEditor] :
                       decorations'[PassEditor][j].line = l]_vars

\* C18: at the instant an entry is exactly as old as the time to live, a
\* hover on the function the entry was stored for returns its verdict
\* without a classify call, and a pass over a document that holds the
\* function gives it a marker
C18_HitAtExactTTL ==
    [][/\ lastOp'.name = "hover"
          => \A e \in Editors : \A l \in 1..Len(Lines(e)) :
                LET found == HoverTable[document[e]][l]
                IN  (/\ found.functionRange # null
                     /\ found.cacheKey \in DOMAIN complexityCache
                     /\ complexityCache[found.cacheKey].code = found.functionCode
                     /\ now - complexityCache[found.cacheKey].timestamp = CACHE_DURATION
                     /\ provideHover(e, l))
                    => /\ lastOp'.outcome = "hit"
                       /\ classifyCalls' = classifyCalls
       /\ RunsPass
          => \A k \in DOMAIN PassTable[document[PassEditor]] :
                LET found == PassTable[document[PassEditor]][k]
                IN  (/\ found.cacheKey \in DOMAIN complexityCache
                     /\ complexityCache[found.cacheKey].code = found.functionCode
                     /\ now - complexityCache[found.cacheKey].timestamp = CACHE_DURATION)
                    => \E j \in DOMAIN decorations'[PassEditor] :
                          decorations'[PassEditor][j].line
                             = found.functionRange.startLine]_vars

\* C19: a view becoming the active one and a text change of the active
\* document, the analysis being on, each start a timer and leave the
\* decorations as they are: a pass runs only in the callback of a timer
C19_TriggersOnlyStartTimer ==
    [][(lastOp'.name \in {"activate", "edit"} /\ inlineEnabled
        /\ (lastOp'.name = "edit" => document'[activeTextEditor] # document[activeTextEditor]))
       => /\ decorations' = decorations
          /\ Len(timers') = Len(timers) + 1]_vars

\* C20: a hover on a function for which the cache, looked up by the key of
\* its text, holds no entry or an expired one issues one classify call for
\* the text, however many calls for the same text are in flight: the calls
\* issued and the requests in flight for the text both grow by one
C20_NoCoalescing ==
    [][lastOp'.name = "hover"
       => \A e \in Editors : \A l \in 1..Len(Lines(e)) :
             LET found == HoverTable[document[e]][l]
                 r == [origin |-> "hover", code |-> found.functionCode,
                       cacheKey |-> found.cacheKey]
             IN  (/\ found.functionRange # null
                  /\ (found.cacheKey \in DOMAIN complexityCache
                      => ~Unexpired(complexityCache[found.cacheKey], now))
                  /\ provideHover(e, l))
                 => /\ lastOp'.outcome = "miss"
                    /\ classifyCalls' = classifyCalls + 1
                    /\ CopiesIn(r, inFlight') = CopiesIn(r, inFlight) + 1
                    /\ BagCardinality(inFlight') = BagCardinality(inFlight) + 1]_vars

\* two hovers on the same function have each issued a classify call, and
\* neither call has been answered
C20_Witness ==
    /\ lastOp.name = "hover"
    /\ lastOp.outcome = "miss"
    /\ classifyCalls = 2
    /\ \E r \in BagToSet(inFlight) : r.origin = "hover" /\ CopiesIn(r, inFlight) = 2

\* C21: when the classify call of a hover is answered with a verdict, in
\* whatever order the calls in flight are answered and whatever the editors
\* and their documents are by then, the cache gets, under the key of the text
\* the call was made for, the entry of that text with the verdict and the
\* time of the answer, in place of the entry the key had; the entries of the
\* other keys stay as they are and no entry is removed, so a key has the
\* entry of the last answer
C21_LastResponseWins ==
    [][\A request \in BagToSet(inFlight), result \in Verdicts :
          (/\ lastOp'.outcome = "success"
           /\ request.origin = "hover"
           /\ ClassifyResolves(request, result))
          => /\ DOMAIN complexityCache' = DOMAIN complexityCache \cup {request.cacheKey}
             /\ request.cacheKey = getCacheKey(request.code)
             /\ complexityCache'[request.cacheKey]
                   = [result |-> result, code |-> request.code, timestamp |-> now]
             /\ \A key \in DOMAIN complexityCache :
                   key # request.cacheKey
                   => complexityCache'[key] = complexityCache[key]]_vars

\* two calls made under one key before either was answered (at the instant
\* of the first entry a hover hits) have both been answered; a marker
\* rendered in between shows the verdict of the first answer, the cache holds
\* the verdict of the second
C21_Witness ==
    /\ lastOp.name = "hover"
    /\ lastOp.outcome = "success"
    /\ now = 0
    /\ classifyCalls = 2
    /\ inFlight = EmptyBag
    /\ Cardinality(DOMAIN complexityCache) = 1
    /\ \E e \in Editors : \E k \in DOMAIN PassTable[document[e]] :
          LET found == PassTable[document[e]][k]
          IN  /\ found.cacheKey \in DOMAIN complexityCache
              /\ complexityCache[found.cacheKey].result = lastOp.verdict
              /\ decorations[e] # <<>>
              /\ decorations[e][1].line = found.functionRange.startLine
              /\ decorations[e][1].complexity # lastOp.verdict

\* the editor whose document the text changes of the model are made to
EditedEditor == CHOOSE e \in Editors : Cardinality(EditorDocs[e]) > 1

\* the document of the active editor has just been changed
ActiveDocumentChanged ==
    /\ lastOp.name = "edit"
    /\ activeTextEditor = EditedEditor

\* the callback of a timer has just run a pass over the document of the
\* editor as it is now: its decorations are the cache hits for that text
PassOverCurrentText ==
    /\ lastOp.name = "fire"
    /\ decorations[EditedEditor]
          = Pass(document[EditedEditor], complexityCache, now).decorations

\* C22: if the analysis is on and stays on, every text change of the active
\* document is eventually followed by the callback of a timer running a pass
\* over that editor, which leaves it with the cache hits for the text of its
\* document at the time of the pass
C22_EditLeadsToPass ==
    []inlineEnabled => (ActiveDocumentChanged ~> PassOverCurrentText)

\* the callback of a timer has just run, the analysis being on and no other
\* timer pending, and the edited document shows the markers of the cache
\* hits for its text, of which there are some
C22_Witness ==
    /\ PassOverCurrentText
    /\ inlineEnabled
    /\ timers = <<>>
    /\ decorations[EditedEditor] # <<>>

\* C23: a step of a hover query, be it its lookup (no function, hit or miss)
\* or the answer to its classify call (success or failure), leaves the
\* decorations of every editor and the pending timers as they are; the
\* decorations of an editor change only in a step that runs a pass or
\* switches the analysis off: a view activation, the callback of a timer
\* started by a text change, or a toggle
C23_HoverRendersNothing ==
    [][/\ lastOp'.name = "hover"
          => /\ decorations' = decorations
             /\ timers' = timers
       /\ decorations' # decorations
          => lastOp'.name \in {"activate", "fire", "toggle"}
       /\ Len(timers') > Len(timers) => lastOp'.name = "edit"]_vars

\* the classify call of a hover has just been answered and the cache now
\* hits for a function of the document of the active editor, which shows no
\* marker; the analysis is on and no timer is pending
C23_Witness ==
    /\ lastOp.name = "hover"
    /\ lastOp.outcome = "success"
    /\ inlineEnabled
    /\ timers = <<>>
    /\ decorations[activeTextEditor] = <<>>
    /\ Pass(document[activeTextEditor], complexityCache, now).decorations # <<>>

=============================================================================
